---- MODULE Spec2Model ----
(***************************************************************************)
(* A model of four pieces of dfvfs:                                        *)
(*   - vfs/tsk_partition_file_entry.py: TSKPartitionDirectory and          *)
(*     TSKPartitionFileEntry (enumeration, stat, file object caching);     *)
(*   - vfs/tar_file_system.py: TARFileSystem (_Open, _Close, lookups);     *)
(*   - file_io/vhdi_file_io.py: VhdiFile._OpenFileObject.                  *)
(*                                                                         *)
(* Python values are modelled as follows.  An optional value is a sequence *)
(* of length at most one: None is << >> and a present value v is << v >>.  *)
(* A unicode string is a sequence of one-character strings.  A path        *)
(* specification is a record with one field per keyword argument.          *)
(***************************************************************************)
EXTENDS Integers, Sequences, FiniteSets, TLC

VARIABLES
  \* ---- the TSK partition volume and one file entry on it
  volume,            \* list(tsk_volume): the native records in on-disk order
  bytes_per_sector,  \* TSKVolumeGetBytesPerSector(tsk_volume)
  located,           \* what GetTSKVsPartByPathSpec finds for the entry
  entry,             \* the TSKPartitionFileEntry instance (its fields)
  gens,              \* the sub_file_entries generators requested so far
  ret,               \* the outcome of the last call on the entry
  constructed,       \* number of TSKPartitionFile objects constructed
  opened,            \* number of TSKPartitionFile.open() calls
  getfo_calls,       \* number of GetFileObject calls made
  \* ---- the TAR file system / VHD file object and the handles they use
  files,             \* file objects handed out by Resolver.OpenFileObject
  decoders,          \* native decoders (tarfile.TarFile, pyvhdi.file)
  fs,                \* the TARFileSystem instance (_file_object, _tar_file)
  pc,                \* position of the running handler
  frame,             \* locals of the running handler
  call,              \* the last call made and how it ended
  ncalls,            \* number of calls made so far
  resolver_calls,    \* invocations of Resolver.OpenFileObject
  decoder_calls,     \* invocations of tarfile.open / open_file_object
  \* ---- TAR lookups
  members,           \* tar_file.getnames(): the member names in archive order
  query              \* the last lookup and its results

vars == << volume, bytes_per_sector, located, entry, gens, ret, constructed,
           opened, getfo_calls, files, decoders, fs, pc, frame, call, ncalls,
           resolver_calls, decoder_calls, members, query >>

partVars == << volume, bytes_per_sector, located, entry, gens, ret,
               constructed, opened, getfo_calls >>
openVars == << files, decoders, fs, pc, frame, call, ncalls, resolver_calls,
               decoder_calls >>
tarVars == << members, query >>

-----------------------------------------------------------------------------
(* Python values *)

None == << >>
Some(v) == << v >>
IsNone(o) == o = << >>
Get(o) == o[1]

\* str.startswith(prefix)
StartsWith(s, prefix) ==
  /\ Len(prefix) <= Len(s)
  /\ \A i \in 1..Len(prefix) : s[i] = prefix[i]

\* s[1:]
Tail1(s) == IF Len(s) = 0 THEN << >> ELSE Tail(s)

Digit(d) == << "0", "1", "2", "3", "4", "5", "6", "7", "8", "9" >>[d + 1]

\* '{0:d}'.format(n) for n >= 0
RECURSIVE FormatD(_)
FormatD(n) == IF n < 10 THEN << Digit(n) >>
              ELSE FormatD(n \div 10) \o << Digit(n % 10) >>

\* All sequences over S of length at most n
RECURSIVE SeqsUpTo(_, _)
SeqsUpTo(S, n) ==
  IF n = 0 THEN { << >> }
  ELSE LET shorter == SeqsUpTo(S, n - 1)
       IN  shorter \cup { Append(s, x) : s \in shorter, x \in S }

-----------------------------------------------------------------------------
(* Bounds *)

MaxRecords == 3
MaxEnums == 2
MaxSectors == 2
MaxCalls == 3
MaxMembers == 2
MaxNameLen == 3
MaxLocationLen == 3

-----------------------------------------------------------------------------
(* The TSK partition volume system *)

\* The sector sizes TSKVolumeGetBytesPerSector reports in the model
SectorSizes == { 512, 4096 }

\* A native record (pytsk3.TSK_VS_PART_INFO): allocation flag, start sector
\* and number of sectors, the last two possibly missing.
VsParts(starts, lens) ==
  [ allocated : BOOLEAN, start : starts, len : lens ]

\* tsk_partition.TSKVsPartIsAllocated: False for a missing record
TSKVsPartIsAllocated(vs_part) ==
  IF IsNone(vs_part) THEN FALSE ELSE Get(vs_part).allocated

\* TSKPartitionFileSystem.LOCATION_ROOT
LOCATION_ROOT == << "/" >>

\* The physical sources a partition table can sit on
OSPathSpecs ==
  { [ type |-> "OS", location |-> Some(<< "a" >>), parent |-> None ],
    [ type |-> "OS", location |-> Some(<< "b" >>), parent |-> None ] }

\* TSKPartitionPathSpec(location=..., part_index=..., start_offset=...,
\* parent=...): a keyword that is not passed stays None.
TSKPartitionPathSpec(location, part_index, start_offset, parent) ==
  [ type |-> "TSK_PARTITION", location |-> location,
    part_index |-> part_index, start_offset |-> start_offset,
    parent |-> parent ]

\* The parent given to every child: "kwargs['parent'] = self.path_spec.parent"
ChildParentSelf(path_spec) == Some(path_spec)

ChildParent(path_spec) == path_spec.parent

ChildLocation(partition_index) == << "/", "p" >> \o FormatD(partition_index)

\* The descriptor _EntriesGenerator builds for one record (the loop body)
ChildPathSpecOneCounter(vs_part, part_index, partition_index, bps, path_spec) ==
  TSKPartitionPathSpec(
    IF TSKVsPartIsAllocated(Some(vs_part))
      THEN Some(ChildLocation(part_index + 1)) ELSE None,
    Some(part_index),
    IF IsNone(vs_part.start) THEN None ELSE Some(Get(vs_part.start) * bps),
    ChildParent(path_spec))

ChildPathSpec(vs_part, part_index, partition_index, bps, path_spec) ==
  TSKPartitionPathSpec(
    IF TSKVsPartIsAllocated(Some(vs_part))
      THEN Some(ChildLocation(partition_index)) ELSE None,
    Some(part_index),
    IF IsNone(vs_part.start) THEN None ELSE Some(Get(vs_part.start) * bps),
    ChildParent(path_spec))

\* A generator object that has not run yet
NewGenerator ==
  [ pc |-> "new", items |-> << >>, pos |-> 0, part_index |-> 0,
    partition_index |-> 0, out |-> << >> ]

\* Whether _EntriesGenerator returns before reading the volume
EntriesGuardReturns(path_spec) ==
  \/ ~IsNone(path_spec.part_index)
  \/ ~IsNone(path_spec.start_offset)
  \/ IsNone(path_spec.location)
  \/ Get(path_spec.location) # LOCATION_ROOT

\* The state a walk starts from: list(tsk_volume) and the two counters are
\* locals of the generator, so the generators requested before it (others)
\* are not read.
EntriesStartShared(g, others) ==
  IF others = << >>
    THEN [ g EXCEPT !.pc = "loop", !.items = volume, !.pos = 0,
                    !.part_index = 0, !.partition_index = 0 ]
    ELSE LET o == others[Len(others)]
         IN  [ g EXCEPT !.pc = "loop", !.items = volume, !.pos = o.pos,
                        !.part_index = o.part_index,
                        !.partition_index = o.partition_index ]

EntriesStart(g, others) ==
  [ g EXCEPT !.pc = "loop", !.items = volume, !.pos = 0,
             !.part_index = 0, !.partition_index = 0 ]

\* _EntriesGenerator up to the for loop
EntriesPrologue(g, others, path_spec) ==
  IF EntriesGuardReturns(path_spec) THEN [ g EXCEPT !.pc = "done" ]
  ELSE EntriesStart(g, others)

\* One turn of the for loop: up to the next yield, or to the end
EntriesStep(g, path_spec) ==
  IF g.pc # "loop" THEN g
  ELSE IF g.pos = Len(g.items) THEN [ g EXCEPT !.pc = "done" ]
  ELSE LET vs_part == g.items[g.pos + 1]
           partition_index ==
             IF TSKVsPartIsAllocated(Some(vs_part))
               THEN g.partition_index + 1 ELSE g.partition_index
       IN  [ g EXCEPT
               !.pos = @ + 1,
               !.partition_index = partition_index,
               !.part_index = @ + 1,
               !.out = Append(@, ChildPathSpec(vs_part, g.part_index,
                                 partition_index, bytes_per_sector,
                                 path_spec)) ]

-----------------------------------------------------------------------------
(* TSKPartitionFileEntry *)

\* The fields __init__ sets
NewEntry(is_virtual, path_spec) ==
  [ is_virtual |-> is_virtual, path_spec |-> path_spec,
    tsk_vs_part |-> None, stat_object |-> None, directory |-> None,
    file_object |-> None ]

\* GetTSKVsPart: the record tsk_partition.GetTSKVsPartByPathSpec finds
GetTSKVsPart == located

\* The _tsk_vs_part field after "if self._tsk_vs_part is None: ..."
LoadVsPart(e) ==
  [ e EXCEPT !.tsk_vs_part = IF IsNone(@) THEN GetTSKVsPart ELSE @ ]

\* Whether _GetStat raises BackEndError
StatRaisesInverted(is_virtual, vs_part) == is_virtual /\ IsNone(vs_part)

StatRaises(is_virtual, vs_part) == ~is_virtual /\ IsNone(vs_part)

\* Whether _GetStat assigns stat_object.size: "if number_of_sectors:"
HasSize(vs_part) ==
  /\ ~IsNone(vs_part)
  /\ ~IsNone(Get(vs_part).len)
  /\ Get(Get(vs_part).len) # 0

\* The stat object _GetStat returns.  A field it does not assign is None.
StatType(is_virtual) == IF is_virtual THEN "directory" ELSE "file"

StatAllocated(is_virtual, vs_part) ==
  IF ~is_virtual THEN Some(TSKVsPartIsAllocated(vs_part)) ELSE None

StatObject(is_virtual, vs_part, bps) ==
  [ size |-> IF HasSize(vs_part)
               THEN Some(Get(Get(vs_part).len) * bps) ELSE None,
    type |-> StatType(is_virtual),
    is_allocated |-> StatAllocated(is_virtual, vs_part) ]

\* _GetStat as a call: the entry afterwards and the outcome
GetStatEntry(e) == LoadVsPart(e)

GetStatOutcome(e) ==
  LET e1 == LoadVsPart(e)
  IN  IF StatRaises(e1.is_virtual, e1.tsk_vs_part)
        THEN [ op |-> "_GetStat", error |-> "BackEndError", value |-> None ]
        ELSE [ op |-> "_GetStat", error |-> "",
               value |-> Some(StatObject(e1.is_virtual, e1.tsk_vs_part,
                                         bytes_per_sector)) ]

\* _GetDirectory: the entry afterwards, the directory returned (None or the
\* TSKPartitionDirectory's path spec) and the error raised, if any
GetDirectoryEntry(e) ==
  IF ~IsNone(e.stat_object) THEN e
  ELSE LET o == GetStatOutcome(e)
       IN  IF o.error # "" THEN GetStatEntry(e)
           ELSE [ GetStatEntry(e) EXCEPT !.stat_object = o.value ]

GetDirectoryError(e) ==
  IF ~IsNone(e.stat_object) THEN "" ELSE GetStatOutcome(e).error

GetDirectoryValue(e) ==
  LET e1 == GetDirectoryEntry(e)
  IN  IF /\ GetDirectoryError(e) = ""
         /\ ~IsNone(e1.stat_object)
         /\ Get(e1.stat_object).type = "directory"
        THEN Some(e1.path_spec) ELSE None

\* Directory.entries (vfs/file_entry.py): every access iterates a new
\* self._EntriesGenerator(); the directory object keeps no iterator.
DirectoryEntries(g, others, path_spec) ==
  EntriesPrologue(g, others, path_spec)

\* sub_file_entries, first next(): the entry after "if self._directory is
\* None: self._directory = self._GetDirectory()"
SubFileEntriesEntry(e) ==
  IF ~IsNone(e.directory) THEN e
  ELSE IF GetDirectoryError(e) # "" THEN GetDirectoryEntry(e)
  ELSE [ GetDirectoryEntry(e) EXCEPT !.directory = GetDirectoryValue(e) ]

SubFileEntriesError(e) ==
  IF ~IsNone(e.directory) THEN "" ELSE GetDirectoryError(e)

\* sub_file_entries, one next() on generator g; others are the generators
\* requested before it
SubFileEntriesNext(g, others, e) ==
  IF g.pc = "new"
    THEN LET e1 == SubFileEntriesEntry(e)
         IN  IF SubFileEntriesError(e) # "" \/ IsNone(e1.directory)
               THEN [ g EXCEPT !.pc = "done" ]
               ELSE EntriesStep(
                      DirectoryEntries(g, others, Get(e1.directory)),
                      Get(e1.directory))
    ELSE EntriesStep(g, Get(e.directory))

\* GetFileObject: the entry afterwards.  open_ok is whether
\* TSKPartitionFile.open() returns (TRUE) or raises (FALSE).
FileObjectNeverCached(e) == TRUE

FileObjectMissing(e) == IsNone(e.file_object)

GetFileObjectEntry(e, open_ok) ==
  IF FileObjectMissing(e)
    THEN [ LoadVsPart(e) EXCEPT
             !.file_object = Some([ id |-> constructed + 1,
                                    is_open |-> open_ok ]) ]
    ELSE e

-----------------------------------------------------------------------------
(* Calls on the partition file entry *)

NoRet == [ op |-> "", error |-> "", value |-> None ]

\* The entry's owner asks for sub_file_entries: a generator object is made,
\* nothing runs until its first next().
RequestSubFileEntries ==
  /\ Len(gens) < MaxEnums
  /\ gens' = Append(gens, NewGenerator)
  /\ UNCHANGED << volume, bytes_per_sector, located, entry, ret,
                  constructed, opened, getfo_calls >>

\* next() on the i-th generator
NextSubFileEntry(i) ==
  /\ gens[i].pc # "done"
  /\ gens' = [ gens EXCEPT
                 ![i] = SubFileEntriesNext(@, SubSeq(gens, 1, i - 1), entry) ]
  /\ entry' = IF gens[i].pc = "new" THEN SubFileEntriesEntry(entry)
              ELSE entry
  /\ ret' = IF gens[i].pc = "new" /\ SubFileEntriesError(entry) # ""
              THEN [ op |-> "sub_file_entries",
                     error |-> SubFileEntriesError(entry), value |-> None ]
              ELSE [ op |-> "sub_file_entries", error |-> "",
                     value |-> None ]
  /\ UNCHANGED << volume, bytes_per_sector, located, constructed, opened,
                  getfo_calls >>

\* entry._GetStat()
CallGetStat ==
  /\ entry' = GetStatEntry(entry)
  /\ ret' = GetStatOutcome(entry)
  /\ UNCHANGED << volume, bytes_per_sector, located, gens, constructed,
                  opened, getfo_calls >>

\* entry._GetDirectory()
CallGetDirectory ==
  /\ entry' = GetDirectoryEntry(entry)
  /\ ret' = [ op |-> "_GetDirectory", error |-> GetDirectoryError(entry),
              value |-> IF GetDirectoryError(entry) # "" THEN None
                        ELSE GetDirectoryValue(entry) ]
  /\ UNCHANGED << volume, bytes_per_sector, located, gens, constructed,
                  opened, getfo_calls >>

\* entry.GetFileObject()
CallGetFileObject(open_ok) ==
  /\ getfo_calls < MaxCalls
  /\ getfo_calls' = getfo_calls + 1
  /\ entry' = GetFileObjectEntry(entry, open_ok)
  /\ constructed' = IF FileObjectMissing(entry) THEN constructed + 1
                    ELSE constructed
  /\ opened' = IF FileObjectMissing(entry) THEN opened + 1 ELSE opened
  /\ ret' = IF FileObjectMissing(entry) /\ ~open_ok
              THEN [ op |-> "GetFileObject", error |-> "open",
                     value |-> None ]
              ELSE [ op |-> "GetFileObject", error |-> "",
                     value |-> Some(Get(entry'.file_object).id) ]
  /\ UNCHANGED << volume, bytes_per_sector, located, gens >>

GetFileObjectAny == \E open_ok \in BOOLEAN : CallGetFileObject(open_ok)

NextAnySubFileEntry == \E i \in 1..Len(gens) : NextSubFileEntry(i)

-----------------------------------------------------------------------------
(* TARFileSystem._Open / _Close and VhdiFile._OpenFileObject *)

\* The file object Resolver.OpenFileObject returns to an open of layer `by`
NewFile(by) ==
  [ state |-> "open", closes |-> 0, by |-> by, outcome |-> "pending" ]

\* file_object.close()
CloseFile(fl, f) ==
  [ fl EXCEPT ![f].state = "closed", ![f].closes = @ + 1 ]

\* The decoder built by tarfile.open(fileobj=...) or open_file_object(...)
NewDecoder(kind, f) == [ kind |-> kind, state |-> "open", parent |-> f ]

\* "if not path_spec.HasParent(): raise errors.PathSpecError(...)"
OpenRejectsNever(has_parent) == FALSE

OpenRejects(has_parent) == ~has_parent

\* The order in which _Close closes the two handles
CloseOrderSwapped == << "file_object", "tar_file" >>

CloseOrder == << "tar_file", "file_object" >>

\* What TARFileSystem._Open does with the parent file object when
\* tarfile.open raises: "except: file_object.close(); raise"
TarOpenFailed(fl, f) ==
  [ CloseFile(fl, f) EXCEPT ![f].outcome = "failed" ]

\* What VhdiFile._OpenFileObject does with the parent file object when
\* open_file_object raises: nothing, the error propagates
VhdiOpenFailed(fl, f) == [ fl EXCEPT ![f].outcome = "failed" ]

\* An open, up to and including the call of Resolver.OpenFileObject.
\* resolver_ok is whether the resolver returns a file object or raises.
OpenBegin(op, has_parent, resolver_ok) ==
  /\ pc = "idle"
  /\ ncalls < MaxCalls
  /\ ncalls' = ncalls + 1
  /\ IF OpenRejects(has_parent)
       THEN /\ call' = [ op |-> op, has_parent |-> has_parent,
                         error |-> "PathSpecError", file |-> None,
                         decoder |-> None ]
            /\ UNCHANGED << files, decoders, fs, pc, frame, resolver_calls,
                            decoder_calls >>
       ELSE /\ resolver_calls' = resolver_calls + 1
            /\ IF resolver_ok
                 THEN /\ files' = Append(files, NewFile(op))
                      /\ frame' = Some(Len(files) + 1)
                      /\ pc' = op
                      /\ call' = [ op |-> op, has_parent |-> has_parent,
                                   error |-> "", file |-> None,
                                   decoder |-> None ]
                 ELSE /\ call' = [ op |-> op, has_parent |-> has_parent,
                                   error |-> "IOError", file |-> None,
                                   decoder |-> None ]
                      /\ UNCHANGED << files, frame, pc >>
            /\ UNCHANGED << decoders, fs, decoder_calls >>

\* TARFileSystem._Open, lines 63-68
TarOpenBegin(has_parent, resolver_ok) ==
  OpenBegin("tar_open", has_parent, resolver_ok)

\* TARFileSystem._Open, lines 70-79.  decode_ok is whether tarfile.open
\* accepts the parent stream; when it does not it raises tarfile.ReadError
\* (a TarError, not an IOError), which the bare "except: ... raise"
\* re-raises unchanged.
TarOpenDecode(decode_ok) ==
  /\ pc = "tar_open"
  /\ decoder_calls' = decoder_calls + 1
  /\ pc' = "idle"
  /\ frame' = None
  /\ IF decode_ok
       THEN /\ decoders' = Append(decoders, NewDecoder("tar", Get(frame)))
            /\ files' = [ files EXCEPT ![Get(frame)].outcome = "ok" ]
            /\ fs' = [ file_object |-> frame,
                       tar_file |-> Some(Len(decoders) + 1) ]
            /\ call' = [ call EXCEPT !.file = frame,
                                     !.decoder = Some(Len(decoders) + 1) ]
       ELSE /\ files' = TarOpenFailed(files, Get(frame))
            /\ call' = [ call EXCEPT !.error = "ReadError" ]
            /\ UNCHANGED << decoders, fs >>
  /\ UNCHANGED << ncalls, resolver_calls >>

\* One statement pair of _Close: close the named handle, clear its field
CloseHandle(which) ==
  IF which = "tar_file"
    THEN /\ decoders' = [ decoders EXCEPT ![Get(fs.tar_file)].state = "closed" ]
         /\ fs' = [ fs EXCEPT !.tar_file = None ]
         /\ UNCHANGED files
    ELSE /\ files' = CloseFile(files, Get(fs.file_object))
         /\ fs' = [ fs EXCEPT !.file_object = None ]
         /\ UNCHANGED decoders

\* TARFileSystem._Close, lines 44-45.  On a file system that holds no
\* handles "self._tar_file.close()" raises AttributeError.
TarCloseBegin ==
  /\ pc = "idle"
  /\ ncalls < MaxCalls
  /\ ncalls' = ncalls + 1
  /\ IF IsNone(fs.tar_file)
       THEN /\ call' = [ op |-> "tar_close", has_parent |-> TRUE,
                         error |-> "AttributeError", file |-> None,
                         decoder |-> None ]
            /\ UNCHANGED << files, decoders, fs, pc >>
       ELSE /\ call' = [ op |-> "tar_close", has_parent |-> TRUE,
                         error |-> "", file |-> fs.file_object,
                         decoder |-> fs.tar_file ]
            /\ CloseHandle(CloseOrder[1])
            /\ pc' = "tar_close"
  /\ UNCHANGED << frame, resolver_calls, decoder_calls >>

\* TARFileSystem._Close, lines 47-48
TarCloseEnd ==
  /\ pc = "tar_close"
  /\ CloseHandle(CloseOrder[2])
  /\ pc' = "idle"
  /\ UNCHANGED << frame, call, ncalls, resolver_calls, decoder_calls >>

\* VhdiFile._OpenFileObject, lines 46-52
VhdiOpenBegin(has_parent, resolver_ok) ==
  OpenBegin("vhdi_open", has_parent, resolver_ok)

\* VhdiFile._OpenFileObject, lines 54-57.  decode_ok is whether
\* vhdi_file.open_file_object accepts the parent stream.
VhdiOpenDecode(decode_ok) ==
  /\ pc = "vhdi_open"
  /\ decoder_calls' = decoder_calls + 1
  /\ pc' = "idle"
  /\ frame' = None
  /\ IF decode_ok
       THEN /\ decoders' = Append(decoders, NewDecoder("vhdi", Get(frame)))
            /\ files' = [ files EXCEPT ![Get(frame)].outcome = "ok" ]
            /\ call' = [ call EXCEPT !.file = frame,
                                     !.decoder = Some(Len(decoders) + 1) ]
       ELSE /\ files' = VhdiOpenFailed(files, Get(frame))
            /\ call' = [ call EXCEPT !.error = "IOError" ]
            /\ UNCHANGED decoders
  /\ UNCHANGED << fs, ncalls, resolver_calls >>

TarOpenBeginAny ==
  \E has_parent \in BOOLEAN, resolver_ok \in BOOLEAN :
    TarOpenBegin(has_parent, resolver_ok)

TarOpenDecodeAny == \E decode_ok \in BOOLEAN : TarOpenDecode(decode_ok)

VhdiOpenBeginAny ==
  \E has_parent \in BOOLEAN, resolver_ok \in BOOLEAN :
    VhdiOpenBegin(has_parent, resolver_ok)

VhdiOpenDecodeAny == \E decode_ok \in BOOLEAN : VhdiOpenDecode(decode_ok)

-----------------------------------------------------------------------------
(* TARFileSystem lookups *)

\* The characters of member names and locations in the model
Chars == { "a", "b", "/" }

\* str.rstrip('/')
RECURSIVE RStripSlash(_)
RStripSlash(s) ==
  IF Len(s) > 0 /\ s[Len(s)] = "/" THEN RStripSlash(SubSeq(s, 1, Len(s) - 1))
  ELSE s

\* tar_file.getmember(name) finds a member (TRUE) or raises KeyError
HasMember(names, name) ==
  \E i \in 1..Len(names) : names[i] = RStripSlash(name)

\* "for name in iter(self._tar_file.getnames()): if name.startswith(...)"
RECURSIVE AnyNameStartsWith(_, _)
AnyNameStartsWith(names, prefix) ==
  IF names = << >> THEN FALSE
  ELSE IF StartsWith(Head(names), prefix) THEN TRUE
  ELSE AnyNameStartsWith(Tail(names), prefix)

\* TARFileSystem.FileEntryExistsByPathSpec, location the path spec's
FileEntryExistsByPathSpec(names, location) ==
  IF IsNone(location) \/ ~StartsWith(Get(location), << "/" >>) THEN FALSE
  ELSE IF Len(Get(location)) = 1 THEN TRUE
  ELSE IF HasMember(names, Tail1(Get(location))) THEN TRUE
  ELSE AnyNameStartsWith(names, Tail1(Get(location)))

\* TARFileSystem.GetFileEntryByPathSpec: None, or the arguments the
\* TARFileEntry is built with
GetFileEntryByPathSpec(names, location) ==
  IF ~FileEntryExistsByPathSpec(names, location) THEN None
  ELSE IF Len(Get(location)) = 1
    THEN Some([ is_root |-> TRUE, is_virtual |-> TRUE, tar_info |-> None ])
  ELSE IF HasMember(names, Tail1(Get(location)))
    THEN Some([ is_root |-> FALSE, is_virtual |-> FALSE,
                tar_info |-> Some(RStripSlash(Tail1(Get(location)))) ])
  ELSE Some([ is_root |-> FALSE, is_virtual |-> TRUE, tar_info |-> None ])

\* file_system.FileEntryExistsByPathSpec(path_spec)
CallFileEntryExists(location) ==
  /\ query' = [ op |-> "FileEntryExistsByPathSpec", location |-> location,
                exists |-> FileEntryExistsByPathSpec(members, location),
                entry |-> None ]
  /\ UNCHANGED members

\* file_system.GetFileEntryByPathSpec(path_spec)
CallGetFileEntry(location) ==
  /\ query' = [ op |-> "GetFileEntryByPathSpec", location |-> location,
                exists |-> FileEntryExistsByPathSpec(members, location),
                entry |-> GetFileEntryByPathSpec(members, location) ]
  /\ UNCHANGED members

\* The member names of the model's archives
MemberNames ==
  { s \in SeqsUpTo(Chars, MaxNameLen) :
      Len(s) > 0 /\ s[1] # "/" /\ s[Len(s)] # "/" }

\* The locations asked for: none, or any string up to MaxLocationLen
Locations ==
  { None } \cup { Some(s) : s \in SeqsUpTo(Chars, MaxLocationLen) }

FileEntryExistsAny == \E l \in Locations : CallFileEntryExists(l)

GetFileEntryAny == \E l \in Locations : CallGetFileEntry(l)

-----------------------------------------------------------------------------
(* Initial states *)

\* The part of the state a specification does not use
PartIdle ==
  /\ volume = << >>
  /\ bytes_per_sector = 512
  /\ located = None
  /\ entry = NewEntry(TRUE, TSKPartitionPathSpec(Some(LOCATION_ROOT), None,
                                None, Some(CHOOSE p \in OSPathSpecs : TRUE)))
  /\ gens = << >>
  /\ ret = NoRet
  /\ constructed = 0
  /\ opened = 0
  /\ getfo_calls = 0

OpenIdle ==
  /\ files = << >>
  /\ decoders = << >>
  /\ fs = [ file_object |-> None, tar_file |-> None ]
  /\ pc = "idle"
  /\ frame = None
  /\ call = [ op |-> "", has_parent |-> TRUE, error |-> "", file |-> None,
              decoder |-> None ]
  /\ ncalls = 0
  /\ resolver_calls = 0
  /\ decoder_calls = 0

TarIdle ==
  /\ members = << >>
  /\ query = [ op |-> "", location |-> None, exists |-> FALSE,
               entry |-> None ]

\* The path specifications an enumerating entry is built with: the root,
\* and four that _EntriesGenerator refuses
EnumPathSpecs ==
  { TSKPartitionPathSpec(loc, pi, so, Some(p)) :
      loc \in { Some(LOCATION_ROOT), Some(<< "/", "p", "1" >>), None },
      pi \in { None, Some(0) }, so \in { None, Some(0) },
      p \in OSPathSpecs }

EnumVsParts == VsParts({ None, Some(63) }, { Some(1) })

InitEnum ==
  /\ volume \in SeqsUpTo(EnumVsParts, MaxRecords)
  /\ bytes_per_sector \in SectorSizes
  /\ located = None
  /\ \E ps \in EnumPathSpecs : entry = NewEntry(TRUE, ps)
  /\ gens = << >>
  /\ ret = NoRet
  /\ constructed = 0
  /\ opened = 0
  /\ getfo_calls = 0
  /\ OpenIdle
  /\ TarIdle

NextEnum ==
  \/ RequestSubFileEntries /\ UNCHANGED << openVars, tarVars >>
  \/ NextAnySubFileEntry /\ UNCHANGED << openVars, tarVars >>

SpecEnum == InitEnum /\ [][NextEnum]_vars

\* The entries whose stat and file object are asked for: the virtual root
\* and concrete partitions, with the record found for them or none
EntryVsParts == VsParts({ Some(0) }, { None } \cup { Some(n) : n \in 0..MaxSectors })

InitEntry ==
  /\ volume = << >>
  /\ bytes_per_sector \in SectorSizes
  /\ located \in { None } \cup { Some(r) : r \in EntryVsParts }
  /\ \E v \in BOOLEAN, p \in OSPathSpecs :
       entry = NewEntry(v, TSKPartitionPathSpec(
                 IF v THEN Some(LOCATION_ROOT) ELSE Some(<< "/", "p", "1" >>),
                 None, None, Some(p)))
  /\ gens = << >>
  /\ ret = NoRet
  /\ constructed = 0
  /\ opened = 0
  /\ getfo_calls = 0
  /\ OpenIdle
  /\ TarIdle

NextEntry ==
  \/ CallGetStat /\ UNCHANGED << openVars, tarVars >>
  \/ CallGetDirectory /\ UNCHANGED << openVars, tarVars >>
  \/ GetFileObjectAny /\ UNCHANGED << openVars, tarVars >>

SpecEntry == InitEntry /\ [][NextEntry]_vars

InitOpen ==
  /\ PartIdle
  /\ OpenIdle
  /\ TarIdle

NextOpen ==
  \/ TarOpenBeginAny /\ UNCHANGED << partVars, tarVars >>
  \/ TarOpenDecodeAny /\ UNCHANGED << partVars, tarVars >>
  \/ TarCloseBegin /\ UNCHANGED << partVars, tarVars >>
  \/ TarCloseEnd /\ UNCHANGED << partVars, tarVars >>
  \/ VhdiOpenBeginAny /\ UNCHANGED << partVars, tarVars >>
  \/ VhdiOpenDecodeAny /\ UNCHANGED << partVars, tarVars >>

SpecOpen == InitOpen /\ [][NextOpen]_vars

InitTar ==
  /\ PartIdle
  /\ OpenIdle
  /\ members \in SeqsUpTo(MemberNames, MaxMembers)
  /\ query = [ op |-> "", location |-> None, exists |-> FALSE,
               entry |-> None ]

NextTar ==
  \/ FileEntryExistsAny /\ UNCHANGED << partVars, openVars >>
  \/ GetFileEntryAny /\ UNCHANGED << partVars, openVars >>

SpecTar == InitTar /\ [][NextTar]_vars

-----------------------------------------------------------------------------
(* Properties of partition enumeration (under SpecEnum) *)

\* The entry is the partition-table root: _EntriesGenerator walks the volume
IsRootEntry == ~EntriesGuardReturns(entry.path_spec)

\* The generators that have started their walk
Walks == { i \in 1..Len(gens) : gens[i].pc # "new" }

\* The one-based count of allocated records among the first i
AllocatedUpTo(i) == Cardinality({ j \in 1..i : volume[j].allocated })

DecimalDigits == << "1", "2", "3", "4", "5", "6", "7", "8", "9" >>

\* C1: enumerating the root yields one descriptor per record in on-disk
\* order; the i-th record (from 0) gets part_index i; a record gets a
\* location iff it is allocated, and that location is '/p<k>', k being the
\* one-based count of allocated records up to and including it.  For
\* records [allocated, unallocated, allocated] exactly '/p1' (part_index 0)
\* and '/p2' (part_index 2) carry a location.
C1_IndexAndLocation ==
  IsRootEntry =>
    \A w \in Walks :
      LET out == gens[w].out
      IN  /\ Len(out) <= Len(volume)
          /\ gens[w].pc = "done" => Len(out) = Len(volume)
          /\ \A i \in 1..Len(out) :
               /\ out[i].part_index = Some(i - 1)
               /\ out[i].start_offset =
                    IF IsNone(volume[i].start) THEN None
                    ELSE Some(Get(volume[i].start) * bytes_per_sector)
               /\ volume[i].allocated <=> ~IsNone(out[i].location)
               /\ volume[i].allocated =>
                    out[i].location =
                      Some(<< "/", "p", DecimalDigits[AllocatedUpTo(i)] >>)
          /\ ( /\ gens[w].pc = "done"
               /\ [ i \in 1..Len(volume) |-> volume[i].allocated ]
                    = << TRUE, FALSE, TRUE >> )
             => { << Get(out[i].location), Get(out[i].part_index) >> :
                    i \in { j \in 1..Len(out) : ~IsNone(out[j].location) } }
                = { << << "/", "p", "1" >>, 0 >>, << << "/", "p", "2" >>, 2 >> }

C1_Witness ==
  /\ IsRootEntry
  /\ Len(gens) >= 1
  /\ gens[1].pc = "done"
  /\ Len(volume) = 3
  /\ volume[1].allocated /\ ~volume[2].allocated /\ volume[3].allocated
  /\ gens[1].out[3].location = Some(<< "/", "p", "2" >>)

\* C6: every child descriptor has as parent the parent of the enumerating
\* directory's own descriptor, never that descriptor itself.
C6_ChildParent ==
  \A w \in Walks :
    \A i \in 1..Len(gens[w].out) :
      /\ gens[w].out[i].parent = entry.path_spec.parent
      /\ gens[w].out[i].parent # Some(entry.path_spec)

C6_Witness ==
  /\ Len(gens) >= 1
  /\ Len(gens[1].out) >= 2
  /\ gens[1].out[1].parent = gens[1].out[2].parent
  /\ gens[1].out[1].parent = entry.path_spec.parent

\* The descriptors a walk on its own yields from its first n records
RECURSIVE LoneWalk(_, _)
LoneWalk(g, n) ==
  IF n = 0 THEN g ELSE LoneWalk(EntriesStep(g, entry.path_spec), n - 1)

LoneOut(n) ==
  LoneWalk([ NewGenerator EXCEPT !.pc = "loop", !.items = volume ], n).out

\* C9: every request walks the record list from its first record with both
\* counters reset: whatever the other enumerations have consumed, a walk
\* that has yielded n descriptors has yielded the first n descriptors of
\* the complete sequence, and a finished walk has yielded all of it.
C9_Restartable ==
  IsRootEntry =>
    \A w \in Walks :
      /\ gens[w].items = volume
      /\ gens[w].pos = Len(gens[w].out)
      /\ gens[w].out = LoneOut(gens[w].pos)
      /\ gens[w].pc = "done" => gens[w].out = LoneOut(Len(volume))
      /\ \A v \in Walks :
           gens[v].pc = "done" /\ gens[w].pc = "done"
             => gens[v].out = gens[w].out

C9_Witness ==
  /\ IsRootEntry
  /\ Len(gens) = 2
  /\ Len(volume) >= 2
  /\ gens[1].pc = "loop" /\ gens[1].pos = 1
  /\ gens[2].pc = "done" /\ Len(gens[2].out) = Len(volume)

-----------------------------------------------------------------------------
(* Properties of the partition file entry (under SpecEntry) *)

\* C7: the stat has size = number_of_sectors * bytes_per_sector whenever
\* the record's sector count is available and no size otherwise; its type
\* is 'file' for a concrete entry and 'directory' for the virtual root; a
\* concrete entry's allocation status is the record's.
C7_StatOfRecord ==
  (ret.op = "_GetStat" /\ ret.error = "") =>
    LET st == Get(ret.value)
        rec == entry.tsk_vs_part
    IN  /\ st.size =
             IF ~IsNone(rec) /\ ~IsNone(Get(rec).len)
               THEN Some(Get(Get(rec).len) * bytes_per_sector) ELSE None
        /\ st.type = IF entry.is_virtual THEN "directory" ELSE "file"
        /\ ~entry.is_virtual => st.is_allocated = Some(Get(rec).allocated)

\* C8: the stat of a non-virtual entry whose record cannot be located fails
\* with BackEndError; no stat object is returned or cached; a virtual entry
\* with no record never raises it.
C8_MissingRecord ==
  /\ (ret.op \in { "_GetStat", "_GetDirectory" } /\ ~entry.is_virtual
        /\ IsNone(located))
       => (ret.error = "BackEndError" /\ IsNone(ret.value))
  /\ (~entry.is_virtual /\ IsNone(located)) => IsNone(entry.stat_object)
  /\ entry.is_virtual => ret.error # "BackEndError"
  /\ ret.error = "BackEndError" => IsNone(located)

C8_Witness ==
  /\ ret.op = "_GetDirectory"
  /\ ret.error = "BackEndError"
  /\ ~entry.is_virtual
  /\ IsNone(entry.stat_object)

\* C10: over any sequence of GetFileObject calls on one entry the file
\* object is constructed and opened at most once, by the first call, and
\* every call that returns returns that stored object.
C10_ConstructedOnce ==
  /\ constructed <= 1
  /\ opened <= 1
  /\ getfo_calls >= 1 => constructed = 1
  /\ IsNone(entry.file_object) <=> getfo_calls = 0
  /\ ~IsNone(entry.file_object) => Get(entry.file_object).id = 1
  /\ (ret.op = "GetFileObject" /\ ret.error = "")
       => ret.value = Some(Get(entry.file_object).id)

C10_Witness ==
  /\ getfo_calls = 3
  /\ constructed = 1
  /\ ret.op = "GetFileObject"
  /\ ret.value = Some(1)

-----------------------------------------------------------------------------
(* Properties of opening and closing layers (under SpecOpen) *)

\* C2: when the native decoder rejects the parent stream, the parent file
\* object obtained for that open is closed before the error propagates:
\* no file object acquired by a failed open remains open.
C2_FailedOpenReleasesParent ==
  \A f \in 1..Len(files) :
    files[f].outcome = "failed" => files[f].state = "closed"

\* C4: an open with a descriptor that has no parent fails with
\* PathSpecError before any I/O: the resolver and the decoder are not
\* invoked and the handles are left as they were.
C4_NoParentNoIO ==
  [][ ( /\ ncalls' = ncalls + 1
        /\ call'.op \in { "tar_open", "vhdi_open" }
        /\ ~call'.has_parent )
      => ( /\ call'.error = "PathSpecError"
           /\ resolver_calls' = resolver_calls
           /\ decoder_calls' = decoder_calls
           /\ pc' = "idle"
           /\ UNCHANGED << files, decoders, fs, frame >> ) ]_vars

C4_Witness ==
  /\ call.op = "tar_open"
  /\ ~call.has_parent
  /\ call.error = "PathSpecError"
  /\ ~IsNone(fs.tar_file)
  /\ resolver_calls = 1
  /\ ncalls = 2

\* C5: the parent file object is opened before the TAR decoder built on
\* it; _Close closes the decoder first and the parent afterwards, exactly
\* once; the parent is never closed while its decoder is open; after a
\* close the file system holds neither handle.
C5_OpenCloseOrder ==
  /\ \A d \in 1..Len(decoders) :
       (decoders[d].kind = "tar" /\ decoders[d].state = "open")
         => files[decoders[d].parent].state = "open"
  /\ \A f \in 1..Len(files) : files[f].closes <= 1
  /\ pc = "tar_open" =>
       /\ files[Get(frame)].state = "open"
       /\ \A d \in 1..Len(decoders) : decoders[d].parent # Get(frame)
  /\ pc = "tar_close" =>
       /\ decoders[Get(call.decoder)].state = "closed"
       /\ files[Get(call.file)].state = "open"
  /\ (pc = "idle" /\ call.op = "tar_close" /\ call.error = "") =>
       /\ IsNone(fs.tar_file) /\ IsNone(fs.file_object)
       /\ decoders[Get(call.decoder)].state = "closed"
       /\ files[Get(call.file)].state = "closed"
       /\ files[Get(call.file)].closes = 1

C5_Witness ==
  /\ pc = "idle"
  /\ call.op = "tar_close"
  /\ call.error = ""
  /\ files[Get(call.file)].closes = 1
  /\ decoders[Get(call.decoder)].state = "closed"

-----------------------------------------------------------------------------
(* Properties of TAR lookups (under SpecTar) *)

\* The location exists in the container: it is the root, names a member,
\* or is a directory path above a member
LocationExists(names, location) ==
  /\ ~IsNone(location)
  /\ StartsWith(Get(location), << "/" >>)
  /\ LET path == RStripSlash(Tail1(Get(location)))
     IN  \/ path = << >>
         \/ \E i \in 1..Len(names) :
              \/ names[i] = path
              \/ StartsWith(names[i], path \o << "/" >>)

\* C3: for a location that does not exist in the container (no location,
\* no leading '/', or only a partial-name prefix of a member name)
\* FileEntryExistsByPathSpec returns False and GetFileEntryByPathSpec
\* returns None.
C3_MissingLocationNotFound ==
  (query.op # "" /\ ~LocationExists(members, query.location)) =>
    /\ query.exists = FALSE
    /\ IsNone(query.entry)

====
